---- MODULE Spec2Model ----
(***************************************************************************)
(* A model of tidy-markdown (Liquid-JS/tidy-markdown): the heading         *)
(* normalizer, the option handling of the default export, the reference    *)
(* block, the link and fenced-code rules, the fallback rule and the table  *)
(* formatter.  Strings are sequences of one-character strings.             *)
(***************************************************************************)
EXTENDS Integers, Sequences, FiniteSets, TLC

VARIABLES
    \* ---- heading pipeline (src/src/index.ts, fixHeaders and convert) ----
    hpc,                    \* position: "convert", "fixHeaders", "loop", "done"
    options,                \* the options object: each field "true", "false" or "unset"
    inputHeaders,           \* the tag numbers of the top-level headings as parsed
    topLevelHeaders,        \* the tag number n of each top-level heading's tagName `h${n}`
    ensureFirstHeaderIsH1,  \* the resolved option
    alignHeaders,           \* the resolved option
    i,                      \* the scan index of fixHeaders (0-based)
    lastHeaderDepth,
    rootDepth,
    \* ---- link table, link rule and reference block (index.ts, converters) ----
    lpc,                    \* "lexed", "linked", "processed", "done"; for an <img>
                            \* "processedImage", "doneImage"
    rawLinks,               \* ast.links in Object.keys order: <<[key, href, title]>>
    links,                  \* the Link array of convert
    rootContent,            \* getContent(root) as assembled from the processed tree
    anchor,                 \* the <a> element the link rule runs on: href, title, content
    replacement,            \* the link rule's result for it
    out,                    \* the string convert returns
    \* ---- fenced code rule (converters, filter 'pre') ----
    cpc,                    \* position: "start", "done"
    languageCodeRewrite,    \* the rewrite table: a set of [key, value]
    pre,                    \* the <pre> element the rule runs on
    language,               \* the language token the rule emits, if any
    fence,                  \* the rule's result
    \* ---- table rule (tables.ts; converters, filter 'table') ----
    tpc,                    \* "parsing", "extracted", "done", "failed", "failedFormatting"
    tableNode,              \* the rows below the <table>, each the list of its children
    alignments,             \* extractRows: the alignment of each column
    rows,                   \* extractRows: the cell texts of each row
    tableOut,               \* the table rule's result
    thrown,                 \* the error the table rule threw, or "none"
    \* ---- fallback rule and convert applied to its own output ----
    dpc,                    \* position: "typing", "converted", "reconverted"
    markdown,               \* what the input holds between <div> and </div>
    tidied,                 \* convert(x)
    retidied,               \* convert(convert(x))
    childNodes,             \* the children of the <div> after the last conversion
    \* ---- processing order (index.ts, bfsOrder and the process loop) ----
    ppc,                    \* position: "parsed", "processing", "done"
    parentOf,               \* the tree: the parent of each element, 0 the root
    kindOf,                 \* per element: "inline", "block" or "table"
    queue,                  \* the elements still to process, in order
    processed,              \* per element: how often process has run on it
    current,                \* the element process ran on last, 0 before
    read,                   \* the elements whose annotations that run read
    \* ---- content assembly (index.ts, process and getContent) ----
    wpc,                    \* position: "processing", "assembled"
    previousSibling,        \* the whitespace pair of a child of the node assembled
    currentChild,           \* the whitespace pair of the child after it
    inserted,               \* what getContent puts between the two
    \* ---- list items (part_001, the li rule) ----
    opc,                    \* position: "parsing", "processing", "done"
    listTag,                \* the tag of the list: "ol" or "ul"
    listNodes,              \* the child nodes of the list
    cursor,                 \* the child process runs on next, 0 after the first
    prefixes,               \* per child: the prefix the li rule gave it
    \* ---- delimitCode (utils.ts) ----
    bpc,                    \* position: "test", "done"
    codeArg,                \* the code delimitCode was called with
    delimiterArg,           \* the number of backticks it was called with
    delimiterLen,           \* the number of backticks of delimiter
    delimited               \* what delimitCode returns

hvars == <<hpc, options, inputHeaders, topLevelHeaders, ensureFirstHeaderIsH1,
           alignHeaders, i, lastHeaderDepth, rootDepth>>

lvars == <<lpc, rawLinks, links, rootContent, anchor, replacement, out>>

cvars == <<cpc, languageCodeRewrite, pre, language, fence>>

tvars == <<tpc, tableNode, alignments, rows, tableOut, thrown>>

dvars == <<dpc, markdown, tidied, retidied, childNodes>>

pvars == <<ppc, parentOf, kindOf, queue, processed, current, read>>

wvars == <<wpc, previousSibling, currentChild, inserted>>
ovars == <<opc, listTag, listNodes, cursor, prefixes>>
bvars == <<bpc, codeArg, delimiterArg, delimiterLen, delimited>>

vars == <<hvars, lvars, cvars, tvars, dvars, pvars, wvars, ovars, bvars>>

\* what the steps of one part leave alone: the variables of the other parts
notHeadings == <<lvars, cvars, tvars, dvars, pvars, wvars, ovars, bvars>>
notLinks == <<hvars, cvars, tvars, dvars, pvars, wvars, ovars, bvars>>
notCode == <<hvars, lvars, tvars, dvars, pvars, wvars, ovars, bvars>>
notTables == <<hvars, lvars, cvars, dvars, pvars, wvars, ovars, bvars>>
notDocument == <<hvars, lvars, cvars, tvars, pvars, wvars, ovars, bvars>>
notOrder == <<hvars, lvars, cvars, tvars, dvars, wvars, ovars, bvars>>
notAssembly == <<hvars, lvars, cvars, tvars, dvars, pvars, ovars, bvars>>
notList == <<hvars, lvars, cvars, tvars, dvars, pvars, wvars, bvars>>
notDelimit == <<hvars, lvars, cvars, tvars, dvars, pvars, wvars, ovars>>

(***************************************************************************)
(* Bounds                                                                  *)
(***************************************************************************)
MaxHeaders == 3
MaxLinks == 2
MaxRewrites == 2
MaxRows == 2
MaxCells == 3
MaxTokens == 3
MaxNodes == 4
MaxDepth == 2
MaxListNodes == 4
MaxCode == 4

\* the sequences over S of length 0..n
SeqsUpTo(S, n) == UNION {[1..k -> S] : k \in 0..n}

(***************************************************************************)
(* Strings: sequences of one-character strings                             *)
(***************************************************************************)
\* the character U+0060 (a TLA+ string cannot hold it)
Backtick == "GRAVE ACCENT"

\* the characters of the model in the order of their UTF-16 code units
Alphabet ==
    <<"\n", " ", "\"", "(", ")", "/", ":", "<", ">", "@", "A", "B", "T", "[", "]",
      Backtick, "a", "b", "i", "l", "m", "o", "t", "u", "v", "x">>

\* the rank of a character's code unit: JavaScript's < on strings compares these
CharCode(c) == CHOOSE k \in 1..Len(Alphabet) : Alphabet[k] = c

\* String.prototype.toLowerCase, per character
ToLowerChar(c) ==
    CASE c = "A" -> "a"
      [] c = "B" -> "b"
      [] c = "T" -> "t"
      [] OTHER -> c

ToLowerCase(str) == [k \in 1..Len(str) |-> ToLowerChar(str[k])]

\* JavaScript's a < b on strings: lexicographic on code units
RECURSIVE StrLess(_, _)
StrLess(a, b) ==
    IF Len(b) = 0 THEN FALSE
    ELSE IF Len(a) = 0 THEN TRUE
    ELSE IF a[1] # b[1] THEN CharCode(a[1]) < CharCode(b[1])
    ELSE StrLess(Tail(a), Tail(b))

\* the characters \s matches, among those of the model
IsSpace(c) == c \in {" ", "\n"}

\* String.prototype.trimRight
RECURSIVE TrimRight(_)
TrimRight(str) ==
    IF Len(str) > 0 /\ IsSpace(str[Len(str)])
    THEN TrimRight(SubSeq(str, 1, Len(str) - 1))
    ELSE str

\* an optional value (null, undefined or a value): <<>> or <<value>>
Null == <<>>
Some(v) == <<v>>

(***************************************************************************)
(* Heading normalizer                                                      *)
(***************************************************************************)
\* the levels of the heading elements the HTML parser delivers: h1..h6
HeadingLevels == 1..6

\* an option of the options object: given as true, given as false, or left out
OptionValues == {"true", "false", "unset"}

\* `const { ensureFirstHeaderIsH1 = true, alignHeaders = true } = options`
OptionOrDefaultFalse(opt) == opt = "true"
OptionOrDefault(opt) == IF opt = "unset" THEN TRUE ELSE opt = "true"

\* the value of the first decimal digit of n: charAt(1) of `h${n}`
RECURSIVE FirstDigit(_)
FirstDigit(n) == IF n < 10 THEN n ELSE FirstDigit(n \div 10)

\* parseInt(tagName.charAt(1), 10) of the tag `h${n}`
ParseDepth(n) == FirstDigit(n)

\* `parseInt(topLevelHeaders[0].tagName.charAt(1), 10) - 1 || 0`
FirstDepthMinusOne(n) == IF ParseDepth(n) - 1 = 0 THEN 0 ELSE ParseDepth(n) - 1

\* the test of line 62
AcceptableNoRoot(headerDepth, root, last) == headerDepth <= last + 1
Acceptable(headerDepth, root, last) ==
    root <= headerDepth /\ headerDepth <= last + 1

\* the gap of lines 73-75
GapFromLast(headerDepth, root, last) == headerDepth - (last + 1)
Gap(headerDepth, root, last) ==
    IF headerDepth <= root THEN headerDepth - root
                           ELSE headerDepth - (last + 1)

\* the last index (1-based) of the run the for loop of lines 77-84 rewrites:
\* from `from`, while the parsed depth is >= headerDepth
RECURSIVE RunEnd(_, _, _)
RunEnd(hs, e, headerDepth) ==
    IF e <= Len(hs) /\ ParseDepth(hs[e]) >= headerDepth
    THEN RunEnd(hs, e + 1, headerDepth)
    ELSE e - 1

\* the for loop of lines 77-84, started at the 1-based index `from`
ShiftRunSkipFirst(hs, from, headerDepth, gap) ==
    LET last == RunEnd(hs, from, headerDepth)
    IN  [e \in 1..Len(hs) |->
            IF from < e /\ e <= last THEN ParseDepth(hs[e]) - gap ELSE hs[e]]
ShiftRun(hs, from, headerDepth, gap) ==
    LET last == RunEnd(hs, from, headerDepth)
    IN  [e \in 1..Len(hs) |->
            IF from <= e /\ e <= last THEN ParseDepth(hs[e]) - gap ELSE hs[e]]

HInit ==
    /\ hpc = "convert"
    /\ options \in [ensureFirstHeaderIsH1 : OptionValues, alignHeaders : OptionValues]
    /\ inputHeaders \in SeqsUpTo(HeadingLevels, MaxHeaders)
    /\ topLevelHeaders = inputHeaders
    /\ ensureFirstHeaderIsH1 = TRUE
    /\ alignHeaders = TRUE
    /\ i = 0
    /\ lastHeaderDepth = 0
    /\ rootDepth = 0

\* convert, lines 291-294 and 331-333: the defaults and the alignHeaders guard
ConvertOptions ==
    /\ hpc = "convert"
    /\ UNCHANGED notHeadings
    /\ ensureFirstHeaderIsH1' = OptionOrDefault(options.ensureFirstHeaderIsH1)
    /\ alignHeaders' = OptionOrDefault(options.alignHeaders)
    /\ hpc' = IF alignHeaders' THEN "fixHeaders" ELSE "done"
    /\ UNCHANGED <<options, inputHeaders, topLevelHeaders, i, lastHeaderDepth, rootDepth>>

\* fixHeaders, lines 31-59: no headers, or the set-up of the scan
FixHeadersEnter ==
    /\ hpc = "fixHeaders"
    /\ UNCHANGED notHeadings
    /\ IF Len(topLevelHeaders) = 0
       THEN /\ hpc' = "done"
            /\ UNCHANGED <<i, lastHeaderDepth, rootDepth>>
       ELSE /\ lastHeaderDepth' = IF ensureFirstHeaderIsH1 THEN 0
                                  ELSE FirstDepthMinusOne(topLevelHeaders[1])
            /\ rootDepth' = lastHeaderDepth' + 1
            /\ i' = 0
            /\ hpc' = "loop"
    /\ UNCHANGED <<options, inputHeaders, topLevelHeaders, ensureFirstHeaderIsH1, alignHeaders>>

\* one pass of the while loop, lines 60-63 and 90: the header follows the rules
LoopAccept ==
    /\ hpc = "loop"
    /\ UNCHANGED notHeadings
    /\ i < Len(topLevelHeaders)
    /\ LET headerDepth == ParseDepth(topLevelHeaders[i + 1])
       IN  /\ Acceptable(headerDepth, rootDepth, lastHeaderDepth)
           /\ lastHeaderDepth' = headerDepth
           /\ i' = i + 1
    /\ UNCHANGED <<hpc, options, inputHeaders, topLevelHeaders, ensureFirstHeaderIsH1,
                   alignHeaders, rootDepth>>

\* one pass of the while loop, lines 64-89: the run is shifted, i stays
LoopShift ==
    /\ hpc = "loop"
    /\ UNCHANGED notHeadings
    /\ i < Len(topLevelHeaders)
    /\ LET headerDepth == ParseDepth(topLevelHeaders[i + 1])
       IN  /\ ~Acceptable(headerDepth, rootDepth, lastHeaderDepth)
           /\ topLevelHeaders' =
                 ShiftRun(topLevelHeaders, i + 1, headerDepth,
                          Gap(headerDepth, rootDepth, lastHeaderDepth))
    /\ UNCHANGED <<hpc, options, inputHeaders, ensureFirstHeaderIsH1, alignHeaders,
                   i, lastHeaderDepth, rootDepth>>

\* the while loop ends, lines 60 and 92
LoopExit ==
    /\ hpc = "loop"
    /\ UNCHANGED notHeadings
    /\ i >= Len(topLevelHeaders)
    /\ hpc' = "done"
    /\ UNCHANGED <<options, inputHeaders, topLevelHeaders, ensureFirstHeaderIsH1,
                   alignHeaders, i, lastHeaderDepth, rootDepth>>

HNext == ConvertOptions \/ FixHeadersEnter \/ LoopAccept \/ LoopShift \/ LoopExit

(***************************************************************************)
(* Claims about the heading normalizer                                     *)
(***************************************************************************)
\* fixHeaders was called and has returned
FixHeadersReturned == hpc = "done" /\ alignHeaders

\* the root depth as the claims define it, from the input alone
ClaimedRootDepth == IF ensureFirstHeaderIsH1 THEN 1 ELSE inputHeaders[1]

\* C2: when fixHeaders returns, every heading level d[k] satisfies
\* rootDepth <= d[k] <= d[k-1] + 1, with d[0] = rootDepth - 1, where rootDepth is 1
\* under the flag and the first heading's original level otherwise.
C2_LevelsWithinRange ==
    FixHeadersReturned =>
        \A k \in 1..Len(topLevelHeaders) :
            LET prev == IF k = 1 THEN ClaimedRootDepth - 1 ELSE topLevelHeaders[k - 1]
            IN  /\ ClaimedRootDepth <= topLevelHeaders[k]
                /\ topLevelHeaders[k] <= prev + 1

\* a return after a heading below the root was raised and a later one was lowered
C2_Witness ==
    /\ FixHeadersReturned
    /\ ~ensureFirstHeaderIsH1
    /\ \E k \in 1..Len(topLevelHeaders) : topLevelHeaders[k] > inputHeaders[k]
    /\ \E k \in 1..Len(topLevelHeaders) : topLevelHeaders[k] < inputHeaders[k]

\* C3: fixHeaders maps [h1, h3, h3] to [h1, h2, h2] for either flag value, and,
\* with ensureFirstHeaderIsH1 false, [h3, h5] to [h3, h4] and [h2, h1] to [h2, h2].
C3_DocumentedExamples ==
    FixHeadersReturned =>
        /\ inputHeaders = <<1, 3, 3>> => topLevelHeaders = <<1, 2, 2>>
        /\ (~ensureFirstHeaderIsH1 /\ inputHeaders = <<3, 5>>)
              => topLevelHeaders = <<3, 4>>
        /\ (~ensureFirstHeaderIsH1 /\ inputHeaders = <<2, 1>>)
              => topLevelHeaders = <<2, 2>>

\* the run of fixHeaders on [h2, h1] without the flag has returned
C3_Witness ==
    /\ FixHeadersReturned
    /\ ~ensureFirstHeaderIsH1
    /\ inputHeaders = <<2, 1>>
    /\ topLevelHeaders = <<2, 2>>

\* C4: fixHeaders terminates on every list of headings h1..h6 and either flag
\* value: the scan reaches the end of the list although a corrected heading is
\* examined again without advancing the index.
C4_FixHeadersTerminates == <>(hpc = "done")

\* a corrected heading is about to be examined again, and is now acceptable
C4_Witness ==
    /\ hpc = "loop"
    /\ i < Len(topLevelHeaders)
    /\ topLevelHeaders[i + 1] # inputHeaders[i + 1]
    /\ Acceptable(ParseDepth(topLevelHeaders[i + 1]), rootDepth, lastHeaderDepth)

\* C5 as stated: with ensureFirstHeaderIsH1 true or left out, the first top-level
\* heading of the result is at level 1, whatever alignHeaders is.
C5_FirstHeaderIsH1_AnyAlign ==
    (/\ hpc = "done"
     /\ options.ensureFirstHeaderIsH1 \in {"true", "unset"}
     /\ Len(inputHeaders) > 0)
        => topLevelHeaders[1] = 1

\* C5 as amended: with ensureFirstHeaderIsH1 true or left out and alignHeaders
\* true or left out, the first top-level heading of the result is at level 1.
C5_FirstHeaderIsH1_WhenAligning ==
    (/\ hpc = "done"
     /\ options.ensureFirstHeaderIsH1 \in {"true", "unset"}
     /\ options.alignHeaders \in {"true", "unset"}
     /\ Len(inputHeaders) > 0)
        => topLevelHeaders[1] = 1

\* both options left out, a document starting with an h3: it has become an h1
C5_Witness ==
    /\ hpc = "done"
    /\ options.ensureFirstHeaderIsH1 = "unset"
    /\ options.alignHeaders = "unset"
    /\ Len(inputHeaders) > 0
    /\ inputHeaders[1] = 3
    /\ topLevelHeaders[1] = 1


\* C17: for every pair of consecutive top-level headings, levels equal in the
\* input are equal in the output of fixHeaders, and a second heading strictly
\* deeper than the first in the input is strictly deeper in the output, for
\* either flag value.
C17_AdjacentRelationPreserved ==
    FixHeadersReturned =>
        \A k \in 1..(Len(inputHeaders) - 1) :
            /\ inputHeaders[k] = inputHeaders[k + 1]
                  => topLevelHeaders[k] = topLevelHeaders[k + 1]
            /\ inputHeaders[k] < inputHeaders[k + 1]
                  => topLevelHeaders[k] < topLevelHeaders[k + 1]

\* C20: every tag name fixHeaders assigns, and every tag name present when it
\* returns, denotes a level between 1 and 6, for every list of top-level
\* headings h1..h6 and either flag value.
C20_TagsWithinH1ToH6 ==
    \A k \in 1..Len(topLevelHeaders) : topLevelHeaders[k] \in HeadingLevels

(***************************************************************************)
(* Link table, link rule, reference block                                  *)
(***************************************************************************)
\* reference names as the Markdown lexer may key them, urls, titles
LinkKeys == {<<"a">>, <<"b">>, <<"B">>}
Urls == {<<"u">>, <<"a", "@", "b">>}
Titles == {Null, Some(<<"T">>)}
RawLinkEntries == [key : LinkKeys, href : Urls, title : Titles]

\* the link tables of at most n entries; the keys of an object are distinct
RawLinkTables(n) ==
    {t \in SeqsUpTo(RawLinkEntries, n) :
        \A j, k \in 1..Len(t) : j # k => t[j].key # t[k].key}

\* `rawLinks[link].title || null`: no title and the empty title give null
TitleOrNull(title) == IF title = Null \/ title = Some(<<>>) THEN Null ELSE title

\* lines 313-317: Object.keys(rawLinks).map(...)
ToLinkKeepCase(raw) ==
    [name |-> raw.key, url |-> raw.href, title |-> TitleOrNull(raw.title)]
ToLink(raw) ==
    [name |-> ToLowerCase(raw.key), url |-> raw.href, title |-> TitleOrNull(raw.title)]

\* lodash's comparison of two links on the keys ['name', 'url']
LinkBefore(a, b) ==
    \/ StrLess(a.name, b.name)
    \/ a.name = b.name /\ StrLess(a.url, b.url)

\* insertion of x into a sorted list, after the elements it does not precede
RECURSIVE InsertSorted(_, _)
InsertSorted(sorted, x) ==
    IF Len(sorted) = 0 THEN <<x>>
    ELSE IF LinkBefore(x, sorted[1]) THEN <<x>> \o sorted
    ELSE <<sorted[1]>> \o InsertSorted(Tail(sorted), x)

RECURSIVE SortFrom(_, _)
SortFrom(sorted, rest) ==
    IF Len(rest) = 0 THEN sorted
    ELSE SortFrom(InsertSorted(sorted, rest[1]), Tail(rest))

\* line 319: _.sortBy(links, ['name', 'url']), a stable ascending sort
Unsorted(ls) == ls
SortByNameUrl(ls) == SortFrom(<<>>, ls)

\* lines 354-355: one definition line
DefinitionLineAlwaysTitle(link) ==
    <<"[">> \o link.name \o <<"]", ":", " ">> \o link.url
        \o <<" ", "\"">> \o (IF link.title = Null THEN <<>> ELSE link.title[1])
        \o <<"\"", "\n">>
DefinitionLine(link) ==
    LET optionalTitle == IF link.title # Null /\ link.title[1] # <<>>
                         THEN <<" ", "\"">> \o link.title[1] \o <<"\"">>
                         ELSE <<>>
    IN  <<"[">> \o link.name \o <<"]", ":", " ">> \o link.url \o optionalTitle \o <<"\n">>

\* lines 353-356: the for loop over the links
RECURSIVE DefinitionLines(_)
DefinitionLines(ls) ==
    IF Len(ls) = 0 THEN <<>> ELSE DefinitionLine(ls[1]) \o DefinitionLines(Tail(ls))

\* the anchors the link rule is run on: href, title attribute, trimmed content
Contents == {<<"a">>, <<"A">>, <<"b">>, <<"x">>}
AutolinkUrls ==
    {<<"a", "@", "b">>, <<"a", ":", "/", "b">>, <<":", "/", "b">>,
     <<"m", "a", "i", "l", "t", "o", ":", "a", "@", "b">>}
Anchors == [href : Urls \cup AutolinkUrls, title : Titles, content : Contents \cup AutolinkUrls]

\* line 135: links.find(({ url, title }) => url == refUrl && title == refTitle)
MatchingUrlOnly(ls, refUrl, refTitle) == {k \in 1..Len(ls) : ls[k].url = refUrl}
MatchingIndexes(ls, refUrl, refTitle) ==
    {k \in 1..Len(ls) : ls[k].url = refUrl /\ ls[k].title = refTitle}
FindReferenceLink(ls, refUrl, refTitle) ==
    LET hits == MatchingIndexes(ls, refUrl, refTitle)
    IN  IF hits = {} THEN Null
        ELSE Some(ls[CHOOSE k \in hits : \A m \in hits : k <= m])

\* part_001 line 33: /.+(?:@|:\/).+/ : an @ or a :/ with a character on each side
AlwaysValidLink(link) == TRUE
IsValidLink(link) ==
    \E k \in 2..Len(link) :
        \/ link[k] = "@" /\ k < Len(link)
        \/ link[k] = ":" /\ k + 1 < Len(link) /\ link[k + 1] = "/"

\* String.prototype.replace(/^mailto:/, '')
Mailto == <<"m", "a", "i", "l", "t", "o", ":">>
StripMailto(url) ==
    IF Len(url) >= Len(Mailto) /\ SubSeq(url, 1, Len(Mailto)) = Mailto
    THEN SubSeq(url, Len(Mailto) + 1, Len(url))
    ELSE url

\* part_001 lines 132-149: the replacement of the rule with filter 'a'
LinkReplacement(content, a, ls) ==
    LET refUrl == a.href
        refTitle == a.title
        referenceLink == FindReferenceLink(ls, refUrl, refTitle)
    IN  IF referenceLink # Null
        THEN IF ToLowerCase(content) = referenceLink[1].name
             THEN <<"[">> \o content \o <<"]">>
             ELSE <<"[">> \o content \o <<"]", "[">> \o referenceLink[1].name \o <<"]">>
        ELSE IF refTitle # Null
        THEN <<"[">> \o content \o <<"]", "(">> \o refUrl \o <<" ", "\"">>
                 \o refTitle[1] \o <<"\"", ")">>
        ELSE IF IsValidLink(refUrl) /\ (content = refUrl \/ content = StripMailto(refUrl))
        THEN <<"<">> \o content \o <<">">>
        ELSE <<"[">> \o content \o <<"]", "(">> \o refUrl \o <<")">>

\* the images the image rule is run on: src, title and alt attributes
Images == [src : Urls, title : Titles, alt : Contents]

\* part_001 lines 157-173: the replacement of the rule for img
ImageReplacement(img, ls) ==
    LET alt == img.alt
        refUrl == img.src
        refTitle == img.title
        referenceLink == FindReferenceLink(ls, refUrl, refTitle)
    IN  IF referenceLink # Null
        THEN IF ToLowerCase(alt) = referenceLink[1].name
             THEN <<"!", "[">> \o alt \o <<"]">>
             ELSE <<"!", "[">> \o alt \o <<"]", "[">> \o referenceLink[1].name \o <<"]">>
        ELSE IF refTitle # Null
        THEN <<"!", "[">> \o alt \o <<"]", "(">> \o refUrl \o <<" ", "\"">>
                 \o refTitle[1] \o <<"\"", ")">>
        ELSE <<"!", "[">> \o alt \o <<"]", "(">> \o refUrl \o <<")">>

\* the results of getContent(root) the final stage is run on
RootContents == {<<"x">>, <<"x", " ", "\n">>}

LInit ==
    /\ lpc = "lexed"
    /\ rawLinks \in RawLinkTables(MaxLinks)
    /\ rootContent \in RootContents
    /\ links = <<>>
    /\ anchor = [href |-> <<>>, title |-> Null, content |-> <<>>]
    /\ replacement = <<>>
    /\ out = <<>>

\* lines 312-319: the link table is built and sorted
BuildLinks ==
    /\ lpc = "lexed"
    /\ UNCHANGED notLinks
    /\ links' = SortByNameUrl([k \in 1..Len(rawLinks) |-> ToLink(rawLinks[k])])
    /\ lpc' = "linked"
    /\ UNCHANGED <<rawLinks, rootContent, anchor, replacement, out>>

\* process (index.ts line 258) on an <a> element: the link rule's producer
ProcessAnchor ==
    /\ lpc = "linked"
    /\ UNCHANGED notLinks
    /\ \E a \in Anchors :
          /\ anchor' = a
          /\ replacement' = LinkReplacement(a.content, a, links)
    /\ lpc' = "processed"
    /\ UNCHANGED <<rawLinks, links, rootContent, out>>

\* process (index.ts line 258) on an <img> element: the image rule's producer;
\* anchor holds its src, title and alt
ProcessImage ==
    /\ lpc = "linked"
    /\ UNCHANGED notLinks
    /\ \E img \in Images :
          /\ anchor' = [href |-> img.src, title |-> img.title, content |-> img.alt]
          /\ replacement' = ImageReplacement(img, links)
    /\ lpc' = "processedImage"
    /\ UNCHANGED <<rawLinks, links, rootContent, out>>

\* lines 348-358: the body, then the reference block
EmitDocument ==
    /\ lpc \in {"processed", "processedImage"}
    /\ UNCHANGED notLinks
    /\ out' = TrimRight(rootContent) \o <<"\n">>
                 \o (IF Len(links) > 0 THEN <<"\n">> ELSE <<>>)
                 \o DefinitionLines(links)
    /\ lpc' = IF lpc = "processed" THEN "done" ELSE "doneImage"
    /\ UNCHANGED <<rawLinks, links, rootContent, anchor, replacement>>

LNext == BuildLinks \/ ProcessAnchor \/ ProcessImage \/ EmitDocument

(***************************************************************************)
(* Claims about the link table, the link rule and the reference block      *)
(***************************************************************************)
\* the lines of a text in which every line ends with a line feed
RECURSIVE SplitLinesFrom(_, _)
SplitLinesFrom(text, line) ==
    IF Len(text) = 0 THEN (IF Len(line) = 0 THEN <<>> ELSE <<line>>)
    ELSE IF text[1] = "\n" THEN <<line>> \o SplitLinesFrom(Tail(text), <<>>)
    ELSE SplitLinesFrom(Tail(text), Append(line, text[1]))
SplitLines(text) == SplitLinesFrom(text, <<>>)

\* a definition line as the claim words it, without its line feed
ClaimedDefinition(raw) ==
    <<"[">> \o ToLowerCase(raw.key) \o <<"]", ":", " ">> \o raw.href
        \o (IF raw.title = Null THEN <<>> ELSE <<" ", "\"">> \o raw.title[1] \o <<"\"">>)

\* (name, url) of a is not after (name, url) of b
NotAfter(a, b) ==
    LET an == ToLowerCase(a.key)
        bn == ToLowerCase(b.key)
    IN  StrLess(an, bn) \/ (an = bn /\ ~StrLess(b.href, a.href))

\* C6: after the body and its single line feed convert appends nothing when the
\* link table is empty, and otherwise a blank line and exactly one definition
\* line per link, `[name]: url` with ` "title"` only when there is a title, the
\* names lower-cased, the lines in ascending order of (name, url).
C6_ReferenceBlock ==
    lpc = "done" =>
        LET body == TrimRight(rootContent)
            n == Len(rawLinks)
        IN  /\ Len(out) > Len(body)
            /\ SubSeq(out, 1, Len(body)) = body
            /\ out[Len(body) + 1] = "\n"
            /\ LET rest == SubSeq(out, Len(body) + 2, Len(out))
               IN  IF n = 0 THEN rest = <<>>
                   ELSE /\ Len(rest) > 1
                        /\ rest[1] = "\n"
                        /\ rest[Len(rest)] = "\n"
                        /\ LET lines == SplitLines(Tail(rest))
                           IN  /\ Len(lines) = n
                               /\ \E p \in Permutations(1..n) :
                                     /\ \A k \in 1..n :
                                           lines[k] = ClaimedDefinition(rawLinks[p[k]])
                                     /\ \A k \in 1..(n - 1) :
                                           NotAfter(rawLinks[p[k]], rawLinks[p[k + 1]])

\* a document with two links, one titled and one not, given out of order
C6_Witness ==
    /\ lpc = "done"
    /\ Len(rawLinks) = 2
    /\ StrLess(ToLowerCase(rawLinks[2].key), ToLowerCase(rawLinks[1].key))
    /\ rawLinks[1].title # Null
    /\ rawLinks[2].title = Null
    /\ rootContent # TrimRight(rootContent)

\* the references whose url and title are those of the anchor
AnchorMatches ==
    {k \in 1..Len(links) : links[k].url = anchor.href /\ links[k].title = anchor.title}

\* C7: if some reference has the anchor's url and title and the visible text
\* equals that reference's name case-insensitively, the link rule emits `[text]`,
\* also when several references share the url and title; if the text differs
\* from the name of the matching reference it emits `[text][name]`.
C7_ShorthandForAnyMatch ==
    lpc \in {"processed", "done"} =>
        /\ (\E k \in AnchorMatches : ToLowerCase(anchor.content) = links[k].name)
              => replacement = <<"[">> \o anchor.content \o <<"]">>
        /\ (/\ AnchorMatches # {}
            /\ \A k \in AnchorMatches : ToLowerCase(anchor.content) # links[k].name)
              => \E k \in AnchorMatches :
                    replacement = <<"[">> \o anchor.content \o <<"]", "[">>
                                      \o links[k].name \o <<"]">>

\* the string holds the pattern with at least one character on each side
HoldsInside(str, pattern) ==
    \E k \in 2..(Len(str) - Len(pattern)) :
        SubSeq(str, k, k + Len(pattern) - 1) = pattern
AutolinkEmitted == replacement = <<"<">> \o anchor.content \o <<">">>
AutolinkConditions ==
    /\ anchor.title = Null
    /\ AnchorMatches = {}
    /\ anchor.content = anchor.href \/ anchor.content = StripMailto(anchor.href)

\* C16 as claimed: the autolink form is emitted only for an anchor without
\* title and without matching reference whose text is its href, with or
\* without a leading mailto:, and whose href holds an @ or a :// with a
\* character on each side.
C16_AutolinkOnlyForUrlWithScheme ==
    lpc \in {"processed", "done"} /\ AutolinkEmitted =>
        /\ AutolinkConditions
        /\ HoldsInside(anchor.href, <<"@">>) \/ HoldsInside(anchor.href, <<":", "/", "/">>)

\* C16, amended: the same with :/ in the place of ://.
C16_AutolinkOnlyForValidLink ==
    lpc \in {"processed", "done"} /\ AutolinkEmitted =>
        /\ AutolinkConditions
        /\ HoldsInside(anchor.href, <<"@">>) \/ HoldsInside(anchor.href, <<":", "/">>)

\* C16 witness: an autolink for a mailto: href written without the prefix
C16_Witness ==
    /\ lpc = "processed"
    /\ AutolinkEmitted
    /\ anchor.content # anchor.href
    /\ Len(links) > 0

\* a replacement in reference style ends with the bracket of a name; the name
\* it refers to is what its last pair of brackets holds, compared without case
ReferenceStyle(str) == Len(str) > 0 /\ str[Len(str)] = "]"
LastOpen(str) ==
    CHOOSE k \in 1..Len(str) :
        str[k] = "[" /\ \A m \in (k + 1)..Len(str) : str[m] # "["
ReferencedName(str) == ToLowerCase(SubSeq(str, LastOpen(str) + 1, Len(str) - 1))

\* the definition line of a name for the url and title of the element
DefinitionOf(name, element) ==
    <<"[">> \o name \o <<"]", ":", " ">> \o element.href
        \o (IF element.title = Null THEN <<>>
            ELSE <<" ", "\"">> \o element.title[1] \o <<"\"">>)

\* C21: every reference-style link or image emitted, `[text][name]`,
\* `![alt][name]` or the shorthand `[text]` / `![alt]`, refers to a name that
\* has a definition line in the reference block of the same output, with the
\* url and title of the anchor or image it replaced.
C21_ReferencesAreDefined ==
    lpc \in {"done", "doneImage"} /\ ReferenceStyle(replacement) =>
        \E k \in 1..Len(SplitLines(out)) :
            /\ k > 2
            /\ SplitLines(out)[k] = DefinitionOf(ReferencedName(replacement), anchor)

\* C21 witness: an image with a title was replaced by the full reference form
\* in a document whose reference block has two definitions
C21_Witness ==
    /\ lpc = "doneImage"
    /\ Len(links) = 2
    /\ anchor.title # Null
    /\ replacement = <<"!", "[">> \o anchor.content \o <<"]", "[">>
                         \o ReferencedName(replacement) \o <<"]">>
    /\ ReferencedName(replacement) # ToLowerCase(anchor.content)

(***************************************************************************)
(* Fenced code rule                                                        *)
(***************************************************************************)
\* language tokens: what CODE_HIGHLIGHT_REGEX captures, and the table's words
Tokens == {<<"a">>, <<"b">>, <<"A">>, <<"B">>}

\* the rewrite tables of at most n entries; the keys of an object are distinct
RewriteTables(n) ==
    {t \in SUBSET [key : Tokens, value : Tokens] :
        /\ Cardinality(t) <= n
        /\ \A e, f \in t : e.key = f.key => e = f}

\* languageCodeRewrite[language]: the value, or undefined
Lookup(table, word) ==
    IF \E e \in table : e.key = word
    THEN Some((CHOOSE e \in table : e.key = word).value)
    ELSE Null

\* utils.ts line 28: the delimiter occurs in the code as a whole run of backticks
NeverOccurs(code, n) == FALSE
DelimiterOccurs(code, n) ==
    \E p \in 1..(Len(code) - n + 1) :
        /\ \A k \in p..(p + n - 1) : code[k] = Backtick
        /\ (p = 1 \/ code[p - 1] # Backtick)
        /\ (p + n - 1 = Len(code) \/ code[p + n] # Backtick)

\* utils.ts lines 28-32: the length the delimiter grows to
RECURSIVE DelimiterLength(_, _)
DelimiterLength(code, n) ==
    IF DelimiterOccurs(code, n) THEN DelimiterLength(code, n + 1) ELSE n

\* utils.ts lines 27-41: delimitCode, for a delimiter of n backticks
DelimitCode(code, n) ==
    LET delimiter == [k \in 1..DelimiterLength(code, n) |-> Backtick]
        spaced == (IF Len(code) > 0 /\ code[1] = Backtick THEN <<" ">> ELSE <<>>)
                      \o code
                      \o (IF Len(code) > 0 /\ code[Len(code)] = Backtick THEN <<" ">> ELSE <<>>)
    IN  delimiter \o spaced \o delimiter

\* the number of backticks of a fence, part_001 line 221
FenceTicks == 3

\* part_001 lines 205-220: the language token of a <pre>
PreLanguageNoLowerCase(element, table) ==
    LET fromCode == IF element.firstIsCode THEN element.codeClass ELSE Null
        found == IF fromCode = Null /\ element.parentIsDiv
                 THEN element.divClass ELSE fromCode
    IN  IF found = Null THEN Null
        ELSE IF Lookup(table, found[1]) # Null
             THEN Lookup(table, found[1]) ELSE found
PreLanguage(element, table) ==
    LET fromCode == IF element.firstIsCode THEN element.codeClass ELSE Null
        found == IF fromCode = Null /\ element.parentIsDiv
                 THEN element.divClass ELSE fromCode
    IN  IF found = Null THEN Null
        ELSE LET lowered == ToLowerCase(found[1])
             IN  IF Lookup(table, lowered) # Null
                 THEN Lookup(table, lowered) ELSE Some(lowered)

\* part_001 lines 204-222: the replacement of the rule with filter 'pre'
PreReplacement(content, element, table) ==
    LET lang == PreLanguage(element, table)
    IN  DelimitCode((IF lang = Null THEN <<>> ELSE lang[1]) \o <<"\n">>
                        \o content \o <<"\n">>, FenceTicks)

\* the <pre> elements: whether the first child is a <code>, the token its class
\* gives CODE_HIGHLIGHT_REGEX (if any), whether the parent is a <div>, the token
\* of the parent's class (if any), and the trimmed content
PreElements ==
    [firstIsCode : BOOLEAN,
     codeClass : {Null, Some(<<"a">>), Some(<<"A">>), Some(<<"b">>)},
     parentIsDiv : BOOLEAN,
     divClass : {Null, Some(<<"B">>)},
     content : {<<"x">>, <<Backtick, Backtick, Backtick>>}]

CInit ==
    /\ cpc = "start"
    /\ languageCodeRewrite \in RewriteTables(MaxRewrites)
    /\ pre = <<>>
    /\ language = Null
    /\ fence = <<>>

\* process (index.ts line 258) on a <pre> element: the fenced code rule's producer
ProcessPre ==
    /\ cpc = "start"
    /\ UNCHANGED notCode
    /\ \E element \in PreElements :
          /\ pre' = element
          /\ language' = PreLanguage(element, languageCodeRewrite)
          /\ fence' = PreReplacement(element.content, element, languageCodeRewrite)
    /\ cpc' = "done"
    /\ UNCHANGED languageCodeRewrite

CNext == ProcessPre

\* the rewriting step as the claim words it: lower-case, then look up
ClaimedRewrite(table, word) ==
    IF \E e \in table : e.key = ToLowerCase(word)
    THEN (CHOOSE e \in table : e.key = ToLowerCase(word)).value
    ELSE ToLowerCase(word)

\* the test of test/language-code-rewrites.ts: no output value is an input key
NoOutputIsInput(table) == \A e, f \in table : e.value # f.key

\* every output value of the table is in lower case
OutputsLowerCase(table) == \A e \in table : ToLowerCase(e.value) = e.value

WideChar == "FULLWIDTH A"

\* wcwidth of one character, and of a string
CharWidth(c) == IF c = WideChar THEN 2 ELSE 1
RECURSIVE WcWidth(_)
WcWidth(str) == IF Len(str) = 0 THEN 0 ELSE CharWidth(str[1]) + WcWidth(Tail(str))

\* JavaScript's undefined and NaN where a number is expected
Undefined == -2000
NaN == -1000

\* a - b on numbers, undefined and NaN
Minus(a, b) == IF a \in {Undefined, NaN} \/ b \in {Undefined, NaN} THEN NaN ELSE a - b
Plus(a, b) == IF a \in {Undefined, NaN} \/ b \in {Undefined, NaN} THEN NaN ELSE a + b

\* Math.floor(a / 2) and Math.ceil(a / 2)
FloorHalf(a) == IF a \in {Undefined, NaN} THEN NaN ELSE a \div 2
CeilHalf(a) == IF a \in {Undefined, NaN} THEN NaN ELSE (a + 1) \div 2

\* a result: a value, or the error thrown
Ok(v) == [err |-> "none", val |-> v]
Throw(kind) == [err |-> kind, val |-> <<>>]

\* a + b of two strings, and [a, ...b] of a value and a list, either of which
\* may have thrown: the left one is evaluated first
Cat(a, b) ==
    IF a.err # "none" THEN a
    ELSE IF b.err # "none" THEN b
    ELSE Ok(a.val \o b.val)
Cons(a, b) ==
    IF a.err # "none" THEN a
    ELSE IF b.err # "none" THEN b
    ELSE Ok(<<a.val>> \o b.val)

\* String.prototype.repeat: NaN counts as 0, a negative count throws
Repeat(char, count) ==
    IF count \in {Undefined, NaN} THEN Ok(<<>>)
    ELSE IF count < 0 THEN Throw("RangeError")
    ELSE Ok([k \in 1..count |-> char])

\* tables.ts lines 10-27, pad(text, length, char): padding on the right
PadRight(text, length, char) ==
    Cat(Ok(text), Repeat(char, Minus(length, WcWidth(text))))

\* tables.ts lines 10-27, pad(length, text): padding on the left; a length that
\* is undefined is not a number, and text.toString() is then called on it
PadLeft(length, text) ==
    IF length = Undefined THEN Throw("TypeError")
    ELSE Cat(Repeat(" ", Minus(length, WcWidth(text))), Ok(text))

\* the children the parser can give a <tr>: th/td cells, with their replacement
\* and the alignment their style gives (tables.ts lines 33-35), whitespace text
\* nodes, and other elements that are not blocks, such as <template>
Alignments == {"left", "center", "right", "null"}
CellTexts == {<<>>, <<"a">>, <<WideChar>>}
TextNode == [kind |-> "text", text |-> <<" ">>, align |-> "null"]
OtherElement == [kind |-> "other", text |-> <<>>, align |-> "null"]
RowChildren ==
    [kind : {"cell"}, text : CellTexts, align : Alignments] \cup {TextNode, OtherElement}

\* utils.ts lines 84-93 with the block tag set: th, td and p are blocks
IsBlock(child) == child.kind \in {"cell", "block"}

\* index.ts lines 265-278: removeEmptyNodes of one row; the children to detach
\* are chosen before any of them is detached
Detached(row, k) ==
    /\ row[k].kind = "text"
    /\ \A j \in 1..Len(row[k].text) : IsSpace(row[k].text[j])
    /\ \/ k = 1
       \/ k = Len(row)
       \/ IsBlock(row[k - 1])
       \/ IsBlock(row[k + 1])
RECURSIVE KeepFrom(_, _)
KeepFrom(row, k) ==
    IF k > Len(row) THEN <<>>
    ELSE IF Detached(row, k) THEN KeepFrom(row, k + 1)
    ELSE <<row[k]>> \o KeepFrom(row, k + 1)
RemoveEmptyNodes(tbl) == [r \in 1..Len(tbl) |-> KeepFrom(tbl[r], 1)]

\* the number of row children of a table
RECURSIVE CountChildren(_)
CountChildren(tbl) == IF Len(tbl) = 0 THEN 0 ELSE Len(tbl[1]) + CountChildren(Tail(tbl))

\* tables.ts lines 52-70: extractColumns
RECURSIVE CellsOf(_)
CellsOf(row) ==
    IF Len(row) = 0 THEN <<>>
    ELSE IF row[1].kind = "cell" THEN <<row[1]>> \o CellsOf(Tail(row))
    ELSE CellsOf(Tail(row))

ExtractColumns(row) ==
    IF \E k \in 1..Len(row) : row[k].kind = "text"
    THEN Throw("NonCellChild")
    ELSE LET cells == CellsOf(row)
         IN  Ok([columns |-> [k \in 1..Len(cells) |-> cells[k].text],
                 alignments |-> [k \in 1..Len(cells) |-> cells[k].align]])

\* tables.ts line 94: the cell's alignment differs from the column's
NeverInconsistent(alignment, known) == FALSE
Inconsistent(alignment, known) == alignment # known

\* tables.ts lines 87-97: the alignments of one row against those known so far
RECURSIVE MergeAlignments(_, _, _)
MergeAlignments(known, rowAlignments, k) ==
    IF k > Len(rowAlignments) THEN Ok(known)
    ELSE LET pushed == IF k > Len(known) THEN Append(known, rowAlignments[k]) ELSE known
         IN  IF Inconsistent(rowAlignments[k], pushed[k])
             THEN Throw("InconsistentAlignment")
             ELSE MergeAlignments(pushed, rowAlignments, k + 1)

\* tables.ts lines 76-102: the loop over the rows
RECURSIVE ExtractFrom(_, _, _)
ExtractFrom(rest, known, done) ==
    IF Len(rest) = 0 THEN Ok([alignments |-> known, rows |-> done])
    ELSE LET row == ExtractColumns(rest[1])
         IN  IF row.err # "none" THEN Throw(row.err)
             ELSE LET merged == MergeAlignments(known, row.val.alignments, 1)
                  IN  IF merged.err # "none" THEN Throw(merged.err)
                      ELSE ExtractFrom(Tail(rest), merged.val,
                                       Append(done, row.val.columns))

\* tables.ts lines 107-109: trailing null alignments past the header are dropped
RECURSIVE DropTrailingNulls(_, _)
DropTrailingNulls(known, headerLength) ==
    IF Len(known) > headerLength /\ known[Len(known)] = "null"
    THEN DropTrailingNulls(SubSeq(known, 1, Len(known) - 1), headerLength)
    ELSE known

\* tables.ts lines 72-112: extractRows; rows[0].length of no row throws
ExtractRows(tbl) ==
    LET found == ExtractFrom(tbl, <<>>, <<>>)
    IN  IF found.err # "none" THEN found
        ELSE IF Len(found.val.rows) = 0 THEN Throw("TypeError")
        ELSE Ok([alignments |-> DropTrailingNulls(found.val.alignments,
                                                  Len(found.val.rows[1])),
                 rows |-> found.val.rows])

Max(a, b) == IF a >= b THEN a ELSE b

\* the widest cell of column k, at least `least`
RECURSIVE WidestFrom(_, _, _)
WidestFrom(rs, k, least) ==
    IF Len(rs) = 0 THEN least
    ELSE WidestFrom(Tail(rs), k,
                    IF k <= Len(rs[1]) THEN Max(WcWidth(rs[1][k]), least) ELSE least)

\* tables.ts lines 152-161: getColumnWidths
GetColumnWidths(rs) == [k \in 1..Len(rs[1]) |-> WidestFrom(rs, k, Len(rs[1][k]))]

\* alignments[i] and columnWidths[i], undefined past the end
AlignmentAt(as, k) == IF k <= Len(as) THEN as[k] ELSE "undefined"
WidthAt(ws, k) == IF k <= Len(ws) THEN ws[k] ELSE Undefined

\* tables.ts lines 122-126: the second pad of a centred cell
PadCentred(leftPadded, whitespace) ==
    IF leftPadded.err # "none" THEN leftPadded
    ELSE PadRight(leftPadded.val, Plus(CeilHalf(whitespace), Len(leftPadded.val)), " ")

\* tables.ts lines 117-129: one cell of formatRow
FormatCell(column, alignment, width) ==
    CASE alignment = "right" -> PadLeft(width, column)
      [] alignment = "center" ->
            PadCentred(PadLeft(Plus(FloorHalf(Minus(width, Len(column))), Len(column)),
                               column),
                       Minus(width, Len(column)))
      [] OTHER -> PadRight(column, width, " ")

\* Array.prototype.map with a callback that may throw: the first error wins
RECURSIVE FormatCells(_, _, _, _)
FormatCells(row, as, ws, k) ==
    IF k > Len(row) THEN Ok(<<>>)
    ELSE Cons(FormatCell(row[k], AlignmentAt(as, k), WidthAt(ws, k)),
              FormatCells(row, as, ws, k + 1))

\* Array.prototype.join(' | ')
RECURSIVE JoinWithBars(_)
JoinWithBars(columns) ==
    IF Len(columns) = 0 THEN <<>>
    ELSE IF Len(columns) = 1 THEN columns[1]
    ELSE columns[1] \o <<" ", "|", " ">> \o JoinWithBars(Tail(columns))

\* tables.ts lines 42-50: joinColumns; `${columns[0]}` of no column is "undefined"
JoinColumns(columns) ==
    IF columns.err # "none" THEN columns
    ELSE IF Len(columns.val) > 1 THEN Ok(JoinWithBars(columns.val))
    ELSE IF Len(columns.val) = 1 THEN Ok(<<"|", " ">> \o columns.val[1])
    ELSE Ok(<<"|", " ", "u", "n", "d", "e", "f", "i", "n", "e", "d">>)

\* String.prototype.trimRight of a string that was computed
TrimRightOf(str) == IF str.err # "none" THEN str ELSE Ok(TrimRight(str.val))

\* tables.ts lines 114-134: formatRow
FormatRow(row, as, ws) == TrimRightOf(JoinColumns(FormatCells(row, as, ws, 1)))

\* tables.ts lines 138-147: one cell of formatHeaderSeparator
SeparatorCell(alignment, width) ==
    CASE alignment = "center" ->
            Cat(Ok(<<":">>), Cat(PadRight(<<>>, Minus(width, 2), "-"), Ok(<<":">>)))
      [] alignment = "left" -> Cat(Ok(<<":">>), PadRight(<<>>, Minus(width, 1), "-"))
      [] alignment = "right" -> Cat(PadRight(<<>>, Minus(width, 1), "-"), Ok(<<":">>))
      [] OTHER -> PadRight(<<>>, width, "-")

RECURSIVE SeparatorCells(_, _, _)
SeparatorCells(as, ws, k) ==
    IF k > Len(as) THEN Ok(<<>>)
    ELSE Cons(SeparatorCell(as[k], WidthAt(ws, k)), SeparatorCells(as, ws, k + 1))

\* tables.ts lines 136-150: formatHeaderSeparator
FormatHeaderSeparator(as, ws) == JoinColumns(SeparatorCells(as, ws, 1))

\* part_001 line 195: the rows after the first, each on a line of its own
RECURSIVE FormatBody(_, _, _)
FormatBody(rs, as, ws) ==
    IF Len(rs) = 0 THEN Ok(<<>>)
    ELSE Cat(Ok(<<"\n">>), Cat(FormatRow(rs[1], as, ws), FormatBody(Tail(rs), as, ws)))

\* part_001 lines 189-198: the table rule after extractRows: the header, the
\* separator, the remaining rows
FormatTable(as, rs) ==
    Cat(FormatRow(rs[1], as, GetColumnWidths(rs)),
        Cat(Ok(<<"\n">>),
            Cat(FormatHeaderSeparator(as, GetColumnWidths(rs)),
                FormatBody(Tail(rs), as, GetColumnWidths(rs)))))

TInit ==
    /\ tpc = "parsing"
    /\ tableNode = <<>>
    /\ alignments = <<>>
    /\ rows = <<>>
    /\ tableOut = <<>>
    /\ thrown = "none"

\* index.ts line 325: the parser delivers the next <tr> of the table; it puts
\* every <tr> below a section of the table, so the breadth-first search of
\* extractRows meets the rows in document order
ParseRow ==
    /\ tpc = "parsing"
    /\ Len(tableNode) < MaxRows
    /\ tableNode' = Append(tableNode, <<>>)
    /\ UNCHANGED <<tpc, alignments, rows, tableOut, thrown>>
    /\ UNCHANGED notTables

\* index.ts line 325: the parser delivers the next child of the last <tr>;
\* it gives adjacent characters one text node
ParseRowChild ==
    /\ tpc = "parsing"
    /\ Len(tableNode) > 0
    /\ CountChildren(tableNode) < MaxCells
    /\ \E child \in RowChildren :
          LET row == tableNode[Len(tableNode)]
          IN  /\ child.kind = "text" /\ Len(row) > 0 => row[Len(row)].kind # "text"
              /\ tableNode' = [tableNode EXCEPT ![Len(tableNode)] = Append(row, child)]
    /\ UNCHANGED <<tpc, alignments, rows, tableOut, thrown>>
    /\ UNCHANGED notTables

\* index.ts lines 328-329 and part_001 line 188: the empty nodes are removed,
\* then the table rule calls extractRows(node); an error leaves process and
\* convert
ExtractRowsOfTable ==
    /\ tpc = "parsing"
    /\ UNCHANGED notTables
    /\ tableNode' = RemoveEmptyNodes(tableNode)
    /\ LET res == ExtractRows(RemoveEmptyNodes(tableNode))
       IN  IF res.err # "none"
           THEN /\ thrown' = res.err
                /\ tpc' = "failed"
                /\ UNCHANGED <<alignments, rows>>
           ELSE /\ alignments' = res.val.alignments
                /\ rows' = res.val.rows
                /\ tpc' = "extracted"
                /\ UNCHANGED thrown
    /\ UNCHANGED tableOut

\* part_001 lines 189-198: the widths, the header, the separator, the rows
FormatExtractedTable ==
    /\ tpc = "extracted"
    /\ UNCHANGED notTables
    /\ LET res == FormatTable(alignments, rows)
       IN  IF res.err # "none"
           THEN /\ thrown' = res.err
                /\ tpc' = "failedFormatting"
                /\ UNCHANGED tableOut
           ELSE /\ tableOut' = res.val
                /\ tpc' = "done"
                /\ UNCHANGED thrown
    /\ UNCHANGED <<tableNode, alignments, rows>>

TNext == ParseRow \/ ParseRowChild \/ ExtractRowsOfTable \/ FormatExtractedTable

(***************************************************************************)
(* Claims about the table rule                                             *)
(***************************************************************************)
\* the fatal-input errors of the taxonomy that the table rule can raise
TaxonomyErrors == {"NonCellChild", "InconsistentAlignment"}

\* C9: whatever tree the parser delivers, the conversion of a table either
\* returns a complete result or aborts with one of the fatal-input errors of
\* the taxonomy; no other error leaves convert.
C9_CompleteOrTaxonomyError ==
    /\ thrown \in {"none"} \cup TaxonomyErrors
    /\ tpc \in {"failed", "failedFormatting"} => thrown \in TaxonomyErrors

\* the th/td cells of row r, and whether column k of the cells of row r has an
\* alignment different from one an earlier row gave that column
CellAlignments(tbl, r) == LET cells == CellsOf(tbl[r]) IN [k \in 1..Len(cells) |-> cells[k].align]
ConflictsWithEarlier(tbl, r) ==
    \E q \in 1..(r - 1) : \E k \in 1..Len(CellAlignments(tbl, r)) :
        /\ k <= Len(CellAlignments(tbl, q))
        /\ CellAlignments(tbl, q)[k] # CellAlignments(tbl, r)[k]
HasTextChild(tbl, r) == \E k \in 1..Len(tbl[r]) : tbl[r][k].kind = "text"

\* two rows give different alignments to cells at the same column index
Conflict(tbl) == \E r \in 1..Len(tbl) : ConflictsWithEarlier(tbl, r)

\* the alignment of the cell at index i in the first row that has such a cell
FirstAlignment(tbl, col) ==
    LET first == CHOOSE r \in 1..Len(tbl) :
                 /\ col <= Len(CellAlignments(tbl, r))
                 /\ \A q \in 1..(r - 1) : col > Len(CellAlignments(tbl, q))
    IN  CellAlignments(tbl, first)[col]
ReturnedAlignmentsAreFirst ==
    \A col \in 1..Len(alignments) :
        /\ \E r \in 1..Len(tableNode) : col <= Len(CellAlignments(tableNode, r))
        /\ alignments[col] = FirstAlignment(tableNode, col)

TextChildUpTo(tbl, r) == \E q \in 1..r : HasTextChild(tbl, q)
ConflictBeforeTextChild(tbl) ==
    \E r \in 1..Len(tbl) : ConflictsWithEarlier(tbl, r) /\ ~TextChildUpTo(tbl, r)
TextChildBeforeConflict(tbl) ==
    \E r \in 1..Len(tbl) :
        /\ HasTextChild(tbl, r)
        /\ \A q \in 1..(r - 1) : ~ConflictsWithEarlier(tbl, q)

\* the longest column count of a row, and the columns extractRows keeps: those
\* of the first row, and later ones up to the last that has an alignment
MaxOf(S) == IF S = {} THEN 0 ELSE CHOOSE m \in S : \A n \in S : n <= m
Widest(tbl) == MaxOf({Len(CellAlignments(tbl, r)) : r \in 1..Len(tbl)})
KeptColumns(tbl) ==
    MaxOf({Len(CellAlignments(tbl, 1))} \cup
          {col \in 1..Widest(tbl) : FirstAlignment(tbl, col) # "null"})

C18_AbortsOnAnyNonCellChild ==
    (/\ tpc # "parsing"
     /\ \E r \in 1..Len(tableNode) : \E k \in 1..Len(tableNode[r]) :
            tableNode[r][k].kind # "cell")
        => tpc = "failed"

\* a cell padded to a display width as claimed: on the right for left or no
\* alignment, on the left for right alignment, on both sides for center
Spaces(n) == [k \in 1..n |-> " "]
ClaimedCell(column, alignment, width) ==
    LET slack == width - WcWidth(column)
    IN  CASE alignment = "right" -> Spaces(slack) \o column
          [] alignment = "center" ->
                Spaces(slack \div 2) \o column \o Spaces(slack - (slack \div 2))
          [] OTHER -> column \o Spaces(slack)

\* C11: with the widths of getColumnWidths, formatRow pads every cell of a
\* column that has a width to exactly that display width, on the side its
\* alignment asks for, cells of double-width characters included.
C11_CellsPaddedToDisplayWidth ==
    tpc \in {"done", "failedFormatting"} =>
        \A r \in 1..Len(rows) : \A k \in 1..Len(rows[r]) :
            k <= Len(rows[1]) =>
                FormatCell(rows[r][k], AlignmentAt(alignments, k),
                           WidthAt(GetColumnWidths(rows), k))
                    = Ok(ClaimedCell(rows[r][k], AlignmentAt(alignments, k),
                                     GetColumnWidths(rows)[k]))

\* a separator cell as claimed: as wide as the column, dashes with a colon at
\* the end or ends its alignment names
ClaimedSeparatorCell(cell, alignment, width) ==
    /\ Len(cell) = width
    /\ \A k \in 1..Len(cell) :
          cell[k] = IF \/ k = 1 /\ alignment \in {"left", "center"}
                       \/ k = Len(cell) /\ alignment \in {"right", "center"}
                    THEN ":" ELSE "-"
    /\ alignment \in {"left", "right"} => Len(cell) >= 1
    /\ alignment = "center" => Len(cell) >= 2

\* C12: formatHeaderSeparator returns one cell per header column, each as wide
\* as its column and made of dashes with the colons of its alignment, for every
\* width getColumnWidths returns.
C12_SeparatorCellPerHeaderColumn ==
    tpc \in {"done", "failedFormatting"} =>
        LET cells == SeparatorCells(alignments, GetColumnWidths(rows), 1)
        IN  /\ cells.err = "none"
            /\ Len(cells.val) = Len(rows[1])
            /\ \A k \in 1..Len(rows[1]) :
                  ClaimedSeparatorCell(cells.val[k], alignments[k],
                                       GetColumnWidths(rows)[k])

(***************************************************************************)
(* Fallback rule: an element no other rule takes is written back as markup *)
(***************************************************************************)
\* the markup of the document: the tags of the one top-level element, leaf
\* elements that are not blocks, leaf elements that are, and characters
DivOpen == "<div>"
DivClose == "</div>"
InlineElement == "<span>a</span>"
BlockElement == "<p>a</p>"
TextChars == {" ", "\n", "x"}

\* what a Markdown input can hold between <div> and </div> for the Markdown
\* parser to hand the line on as one block of markup
InputTokens == {InlineElement, BlockElement, " ", "x"}

\* index.ts line 325: the parser's tree for a run of markup: one node per
\* element, one text node per maximal run of characters
RECURSIVE ParseChildren(_, _)
ParseChildren(tokens, nodes) ==
    IF Len(tokens) = 0 THEN nodes
    ELSE IF tokens[1] \in TextChars
         THEN IF Len(nodes) > 0 /\ nodes[Len(nodes)].kind = "text"
              THEN ParseChildren(Tail(tokens),
                       [nodes EXCEPT ![Len(nodes)].text = Append(@, tokens[1])])
              ELSE ParseChildren(Tail(tokens),
                       Append(nodes, [kind |-> "text", text |-> <<tokens[1]>>]))
         ELSE ParseChildren(Tail(tokens),
                  Append(nodes, [kind |-> IF tokens[1] = BlockElement THEN "block" ELSE "inline",
                                 text |-> <<>>]))

\* the markup between the first <div> of a document and its </div>; the
\* newline after </div> becomes a text node that is the last child of the
\* root, and removeEmptyNodes(root) detaches it (index.ts line 328)
RECURSIVE UpToClose(_)
UpToClose(tokens) ==
    IF Len(tokens) = 0 \/ tokens[1] = DivClose THEN <<>>
    ELSE <<tokens[1]>> \o UpToClose(Tail(tokens))
InnerMarkup(document) == UpToClose(Tail(document))

\* part_001 lines 12-27: indentChildren
AlwaysIndented(children) == TRUE
AllChildrenAreElements(children) == \A k \in 1..Len(children) : children[k].kind # "text"
RECURSIVE InsertTextBeforeEach(_)
InsertTextBeforeEach(children) ==
    IF Len(children) = 0 THEN <<>>
    ELSE <<[kind |-> "text", text |-> <<"\n", " ", " ">>], children[1]>>
             \o InsertTextBeforeEach(Tail(children))
IndentChildren(children) ==
    IF AllChildrenAreElements(children)
    THEN Append(InsertTextBeforeEach(children), [kind |-> "text", text |-> <<"\n">>])
    ELSE children

\* part_001 lines 302-303: serialize, of the children of the element
RECURSIVE SerializeChildren(_)
SerializeChildren(children) ==
    IF Len(children) = 0 THEN <<>>
    ELSE (CASE children[1].kind = "text" -> children[1].text
            [] children[1].kind = "block" -> <<BlockElement>>
            [] OTHER -> <<InlineElement>>) \o SerializeChildren(Tail(children))

\* index.ts lines 285-359 on a document of one top-level element that the
\* fallback rule takes: parse, removeEmptyNodes, the fallback rule's
\* replacement, and the content of the root trimmed with a newline after it;
\* the leaf elements hold text, so that indentChildren leaves them as they are
Convert(document) ==
    LET children == KeepFrom(ParseChildren(InnerMarkup(document), <<>>), 1)
    IN  TrimRight(<<DivOpen>> \o SerializeChildren(IndentChildren(children)) \o <<DivClose>>)
            \o <<"\n">>

\* the children of the top-level element when convert returns: those the
\* parser gave it, less the ones removeEmptyNodes detached, as the fallback
\* rule's replacement left them
ParsedChildren(document) == KeepFrom(ParseChildren(InnerMarkup(document), <<>>), 1)
ProcessedChildren(document) == IndentChildren(ParsedChildren(document))

DInit ==
    /\ dpc = "typing"
    /\ markdown = <<>>
    /\ tidied = <<>>
    /\ retidied = <<>>
    /\ childNodes = <<>>

\* the input grows by an element or a character
TypeMarkup ==
    /\ dpc = "typing"
    /\ Len(markdown) < MaxTokens
    /\ \E token \in InputTokens : markdown' = Append(markdown, token)
    /\ UNCHANGED <<dpc, tidied, retidied, childNodes>>
    /\ UNCHANGED notDocument

\* index.ts lines 285-359: convert(x)
ConvertMarkdown ==
    /\ dpc = "typing"
    /\ tidied' = Convert(<<DivOpen>> \o markdown \o <<DivClose>>)
    /\ childNodes' = ProcessedChildren(<<DivOpen>> \o markdown \o <<DivClose>>)
    /\ dpc' = "converted"
    /\ UNCHANGED <<markdown, retidied>>
    /\ UNCHANGED notDocument

\* index.ts lines 285-359: convert(convert(x))
ConvertTidied ==
    /\ dpc = "converted"
    /\ retidied' = Convert(tidied)
    /\ childNodes' = ProcessedChildren(tidied)
    /\ dpc' = "reconverted"
    /\ UNCHANGED <<markdown, tidied>>
    /\ UNCHANGED notDocument

DNext == TypeMarkup \/ ConvertMarkdown \/ ConvertTidied

\* the elements among the children, and the text nodes a producer added
RECURSIVE ElementsAmong(_)
ElementsAmong(children) ==
    IF Len(children) = 0 THEN <<>>
    ELSE IF children[1].kind = "text" THEN ElementsAmong(Tail(children))
    ELSE <<children[1]>> \o ElementsAmong(Tail(children))
ChildrenBeforeProcess ==
    ParsedChildren(IF dpc = "converted" THEN <<DivOpen>> \o markdown \o <<DivClose>>
                   ELSE tidied)

\* C14 as claimed: a rule's producer leaves the tree as it was.
C14_ProducerLeavesTreeUnchanged ==
    dpc \in {"converted", "reconverted"} => childNodes = ChildrenBeforeProcess

\* C14, amended: the fallback producer leaves the elements, their order and a
\* child list holding a text node as they were; to a child list without a text
\* node it adds one text node of a newline and two spaces before each child
\* and one of a newline at the end.
C14_ProducerAddsOnlyIndentation ==
    dpc \in {"converted", "reconverted"} =>
        LET before == ChildrenBeforeProcess
        IN  /\ ElementsAmong(childNodes) = ElementsAmong(before)
            /\ (\E k \in 1..Len(before) : before[k].kind = "text") => childNodes = before
            /\ (\A k \in 1..Len(before) : before[k].kind # "text") =>
                  /\ Len(childNodes) = 2 * Len(before) + 1
                  /\ \A k \in 1..Len(before) :
                        /\ childNodes[2 * k - 1] = [kind |-> "text", text |-> <<"\n", " ", " ">>]
                        /\ childNodes[2 * k] = before[k]
                  /\ childNodes[Len(childNodes)] = [kind |-> "text", text |-> <<"\n">>]

\* C14 witness: both cases happened, an element with a text child left alone
\* and, one conversion earlier, its child list indented
C14_Witness ==
    /\ dpc = "reconverted"
    /\ \E k \in 1..Len(childNodes) : childNodes[k].kind = "text"
    /\ childNodes = ChildrenBeforeProcess
    /\ Len(ElementsAmong(childNodes)) = 2
    /\ tidied # retidied

\* C1: for every input x, convert(convert(x)) = convert(x).
C1_ConvertIsIdempotent == dpc = "reconverted" => retidied = tidied

(***************************************************************************)
(* Processing order: bfsOrder, reversed, and the process loop              *)
(***************************************************************************)
\* the trees of n elements below the root 0: element k hangs below the root or
\* an element before it, and the children of a node stand in ascending order;
\* text nodes carry no annotation and are left out, a converted comment is an
\* inline element without element children
Trees(n) == {t \in [1..n -> 0..n] : \A k \in 1..n : t[k] < k}
ElementKinds == {"inline", "block", "table"}

\* node.childNodes.filter(isElement), in document order
RECURSIVE ChildrenFrom(_, _, _)
ChildrenFrom(tree, node, k) ==
    IF k > Len(tree) THEN <<>>
    ELSE IF tree[k] = node THEN <<k>> \o ChildrenFrom(tree, node, k + 1)
    ELSE ChildrenFrom(tree, node, k + 1)
ChildElements(tree, node) == ChildrenFrom(tree, node, 1)
Range(seq) == {seq[k] : k \in 1..Len(seq)}

\* index.ts lines 105-123: bfsOrder
RECURSIVE BfsFrom(_, _, _)
BfsFrom(tree, inqueue, outqueue) ==
    IF Len(inqueue) = 0 THEN outqueue
    ELSE BfsFrom(tree, Tail(inqueue) \o ChildElements(tree, inqueue[1]),
                 Append(outqueue, inqueue[1]))
BfsOrder(tree) == Tail(BfsFrom(tree, <<0>>, <<>>))

\* index.ts line 345: Array.prototype.reverse
NotReversed(seq) == seq
Reverse(seq) == [k \in 1..Len(seq) |-> seq[Len(seq) + 1 - k]]

\* the elements below a node
RECURSIVE DescendantsOf(_, _)
DescendantsOf(tree, node) ==
    LET below == Range(ChildElements(tree, node))
    IN  below \cup UNION {DescendantsOf(tree, m) : m \in below}

\* node.previousSibling and node.nextSibling among the elements, as a set
SiblingsNextTo(tree, node) ==
    LET siblings == ChildElements(tree, tree[node])
        at == CHOOSE k \in 1..Len(siblings) : siblings[k] = node
    IN  {siblings[k] : k \in {at - 1, at + 1} \cap (1..Len(siblings))}

\* index.ts lines 238-260: the elements whose _replacement or _whitespace one
\* run of process reads: the children (getContent, lines 127 and 159-160;
\* flankingWhitespace, lines 227-228), the children of a sibling that is no
\* block when the node is none (isFlankedByWhitespace, line 195), and for a
\* table the cells below it (tables.ts line 62)
ReadBy(tree, kinds, node) ==
    Range(ChildElements(tree, node))
    \cup (IF kinds[node] = "inline"
          THEN UNION {Range(ChildElements(tree, m)) :
                        m \in {x \in SiblingsNextTo(tree, node) : kinds[x] = "inline"}}
          ELSE {})
    \cup (IF kinds[node] = "table" THEN DescendantsOf(tree, node) ELSE {})

PInit ==
    /\ ppc = "parsed"
    /\ \E n \in 1..MaxNodes :
          /\ parentOf \in Trees(n)
          /\ kindOf \in [1..n -> ElementKinds]
          /\ processed = [k \in 1..n |-> 0]
    /\ queue = <<>>
    /\ current = 0
    /\ read = {}

\* index.ts lines 335-345: the elements in breadth-first order, each given its
\* converter, the list reversed
OrderElements ==
    /\ ppc = "parsed"
    /\ queue' = Reverse(BfsOrder(parentOf))
    /\ ppc' = "processing"
    /\ UNCHANGED <<parentOf, kindOf, processed, current, read>>
    /\ UNCHANGED notOrder

\* index.ts line 346 and lines 238-260: process runs on the next element
ProcessElement ==
    /\ ppc = "processing"
    /\ Len(queue) > 0
    /\ current' = queue[1]
    /\ read' = ReadBy(parentOf, kindOf, queue[1])
    /\ processed' = [processed EXCEPT ![queue[1]] = @ + 1]
    /\ queue' = Tail(queue)
    /\ UNCHANGED <<ppc, parentOf, kindOf>>
    /\ UNCHANGED notOrder

\* index.ts line 348: the loop is over, the content of the root is read
ProcessingOver ==
    /\ ppc = "processing"
    /\ Len(queue) = 0
    /\ ppc' = "done"
    /\ current' = 0
    /\ read' = Range(ChildElements(parentOf, 0))
    /\ UNCHANGED <<parentOf, kindOf, queue, processed>>
    /\ UNCHANGED notOrder

PNext == OrderElements \/ ProcessElement \/ ProcessingOver

\* the elements process has run on
Processed == {k \in 1..Len(processed) : processed[k] > 0}

\* C13: every element is processed exactly once and after all of its
\* descendants, and every element whose replacement or whitespace a run of
\* process (or the final read of the root's content) reads was processed
\* before that run.
C13_ProcessedOnceAfterDescendants ==
    /\ \A k \in 1..Len(processed) : processed[k] <= 1
    /\ ppc = "done" => \A k \in 1..Len(processed) : processed[k] = 1
    /\ \A k \in Processed : DescendantsOf(parentOf, k) \subseteq Processed
    /\ read \subseteq Processed \ {current}

\* C13 witness: process ran on an inline element and read the child of its
\* sibling, while other elements were still waiting
C13_Witness ==
    /\ ppc = "processing"
    /\ Len(queue) > 0
    /\ current # 0
    /\ \E m \in read : parentOf[m] # current

(***************************************************************************)
(* delimitCode, step by step                                               *)
(***************************************************************************)
\* the number of backticks of the delimiter of inline code, part_001 line 229
InlineTicks == 1

\* the code strings of at most n characters
CodeChars == {Backtick, "a", "\n"}
Codes(n) == SeqsUpTo(CodeChars, n)

\* the rules with filter 'pre' and 'code' call delimitCode
BInit ==
    /\ bpc = "test"
    /\ codeArg \in Codes(MaxCode)
    /\ delimiterArg \in {InlineTicks, FenceTicks}
    /\ delimiterLen = delimiterArg
    /\ delimited = <<>>

\* utils.ts lines 28-32: the test of the while loop succeeds
GrowDelimiter ==
    /\ bpc = "test"
    /\ DelimiterOccurs(codeArg, delimiterLen) = TRUE
    /\ delimiterLen' = delimiterLen + 1
    /\ UNCHANGED <<bpc, codeArg, delimiterArg, delimited>>
    /\ UNCHANGED notDelimit

\* utils.ts lines 28 and 34-40: the test fails, the code is wrapped
ReturnDelimited ==
    /\ bpc = "test"
    /\ DelimiterOccurs(codeArg, delimiterLen) = FALSE
    /\ delimited' = DelimitCode(codeArg, delimiterLen)
    /\ bpc' = "done"
    /\ UNCHANGED <<codeArg, delimiterArg, delimiterLen>>
    /\ UNCHANGED notDelimit

BNext == GrowDelimiter \/ ReturnDelimited

\* the lengths of the maximal runs of backticks of a string
RunLengths(str) ==
    {r[2] - r[1] + 1 : r \in
        {pq \in (1..Len(str)) \X (1..Len(str)) :
            /\ pq[1] <= pq[2]
            /\ \A k \in pq[1]..pq[2] : str[k] = Backtick
            /\ pq[1] > 1 => str[pq[1] - 1] # Backtick
            /\ pq[2] < Len(str) => str[pq[2] + 1] # Backtick}}

\* the code between delimiters of n backticks, with a space next to a backtick
\* at its start and at its end
Ticks(n) == [k \in 1..n |-> Backtick]
ClaimedDelimited(str, n) ==
    Ticks(n)
        \o (IF Len(str) > 0 /\ str[1] = Backtick THEN <<" ">> ELSE <<>>)
        \o str
        \o (IF Len(str) > 0 /\ str[Len(str)] = Backtick THEN <<" ">> ELSE <<>>)
        \o Ticks(n)

\* the delimiter of what delimitCode returned is as claimed
DelimiterAsClaimed ==
    bpc = "done" =>
        /\ delimiterLen >= delimiterArg
        /\ delimiterLen \notin RunLengths(codeArg)
        /\ delimited = ClaimedDelimited(codeArg, delimiterLen)
        /\ delimited = DelimitCode(codeArg, delimiterArg)

\* C22: delimitCode terminates for every code string and starting delimiter
\* of backticks; the delimiter it wraps the code in is at least as long as the
\* starting delimiter and its length differs from that of every maximal run of
\* backticks in the code; a space stands between the delimiter and the code
\* where the code starts or ends with a backtick.
C22_TerminatesWithSafeDelimiter == <>(bpc = "done") /\ []DelimiterAsClaimed

\* C22 witness: the delimiter grew twice around code that starts with a backtick
C22_Witness ==
    /\ bpc = "done"
    /\ delimiterLen >= delimiterArg + 2
    /\ codeArg[1] = Backtick
    /\ delimited[delimiterLen + 1] = " "

(***************************************************************************)
(* List items                                                              *)
(***************************************************************************)
\* the child nodes of a list: an <li> (a block element), a comment, a text node
\* with a word, a text node of white space
ListItem == [kind |-> "block", text |-> <<"a">>]
CommentNode == [kind |-> "comment", text |-> <<"c">>]
WordText == [kind |-> "text", text |-> <<"x">>]
SpaceText == [kind |-> "text", text |-> <<"\n">>]
ListNodes == {ListItem, CommentNode, WordText, SpaceText}

\* index.ts lines 94-100 and 113-116: bfsOrder puts a _comment element in the
\* place of every comment node
ConvertCommentNode(node) == [kind |-> "_comment", text |-> node.text]
ConvertCommentNodes(nodes) ==
    [k \in 1..Len(nodes) |->
        IF nodes[k].kind = "comment" THEN ConvertCommentNode(nodes[k]) ELSE nodes[k]]

\* number + '. ' : the decimal digits of the number
DigitChars == <<"0", "1", "2", "3", "4", "5", "6", "7", "8", "9">>
RECURSIVE Decimal(_)
Decimal(number) ==
    IF number < 10 THEN <<DigitChars[number + 1]>>
    ELSE Decimal(number \div 10) \o <<DigitChars[(number % 10) + 1]>>

\* part_001 line 281: the prefix of the li at childNodes.indexOf(node) = indexOf
LiPrefix(tagName, indexOf) ==
    IF tagName = "ol" THEN Decimal(indexOf + 1) \o <<".", " ">> ELSE <<"-", " ">>

OInit ==
    /\ opc = "parsing"
    /\ listTag \in {"ol", "ul"}
    /\ listNodes = <<>>
    /\ cursor = 0
    /\ prefixes = <<>>

\* index.ts line 325: the parser delivers the next child of the list; it never
\* delivers two text nodes in a row
ParseListNode ==
    /\ opc = "parsing"
    /\ Len(listNodes) < MaxListNodes
    /\ \E node \in ListNodes :
          /\ node.kind = "text" /\ Len(listNodes) > 0
                => listNodes[Len(listNodes)].kind # "text"
          /\ listNodes' = Append(listNodes, node)
    /\ UNCHANGED <<opc, listTag, cursor, prefixes>>
    /\ UNCHANGED notList

\* index.ts lines 328-345: bfsOrder converts the comments, removeEmptyNodes
\* detaches the empty text nodes, and the elements are queued in reverse
OrderListNodes ==
    /\ opc = "parsing"
    /\ listNodes' = KeepFrom(ConvertCommentNodes(listNodes), 1)
    /\ cursor' = Len(listNodes')
    /\ prefixes' = [k \in 1..Len(listNodes') |-> <<>>]
    /\ opc' = "processing"
    /\ UNCHANGED listTag
    /\ UNCHANGED notList

\* index.ts line 346 and part_001 lines 271-284: process reaches the children
\* of the list last to first; the li rule computes the prefix of an <li>
ProcessListNode ==
    /\ opc = "processing"
    /\ cursor > 0
    /\ prefixes' = IF listNodes[cursor].kind = "block"
                   THEN [prefixes EXCEPT ![cursor] = LiPrefix(listTag, cursor - 1)]
                   ELSE prefixes
    /\ cursor' = cursor - 1
    /\ UNCHANGED <<opc, listTag, listNodes>>
    /\ UNCHANGED notList

\* every child of the list is processed
ListProcessed ==
    /\ opc = "processing"
    /\ cursor = 0
    /\ opc' = "done"
    /\ UNCHANGED <<listTag, listNodes, cursor, prefixes>>
    /\ UNCHANGED notList

ONext == ParseListNode \/ OrderListNodes \/ ProcessListNode \/ ListProcessed

\* the number of <li> among the first `upTo` children
ItemsUpTo(nodes, upTo) == Cardinality({k \in 1..upTo : nodes[k].kind = "block"})

\* C19: the k-th list item of an ordered list gets the prefix `k. `, whatever
\* other children the list has between its items; a list item whose parent is
\* not an ordered list gets the prefix `- `.
C19_ItemsNumberedInOrder ==
    opc = "done" =>
        \A k \in 1..Len(listNodes) :
            listNodes[k].kind = "block" =>
                prefixes[k] = IF listTag = "ol"
                              THEN Decimal(ItemsUpTo(listNodes, k)) \o <<".", " ">>
                              ELSE <<"-", " ">>

(***************************************************************************)
(* Content assembly: the whitespace pair of process, the text getContent   *)
(* puts between two children                                               *)
(***************************************************************************)
\* part_001 lines 64-306: the rules by what process reads of them, with
\* whether the block tag set holds the tag and whether the element is void
Rule(name, blankLines, trailing, block, void) ==
    [name |-> name, surroundingBlankLines |-> blankLines, trailingWhitespace |-> trailing,
     block |-> block, void |-> void]
Rules ==
    { Rule("p", TRUE, <<>>, TRUE, FALSE),
      Rule("td", FALSE, <<>>, TRUE, FALSE),
      Rule("em", FALSE, <<>>, FALSE, FALSE),
      Rule("br", FALSE, <<"\n">>, FALSE, TRUE),
      Rule("li", FALSE, <<"\n">>, TRUE, FALSE) }

\* index.ts lines 200-232: flankingWhitespace; whether the content starts or
\* ends with whitespace that no sibling supplies is given, and so are the
\* leading whitespace of the first child and the trailing one of the last
FlankingWhitespace(rule, spaceBefore, spaceAfter, firstLeading, lastTrailing) ==
    [leading |-> (IF ~rule.block /\ spaceBefore THEN <<" ">> ELSE <<>>) \o firstLeading,
     trailing |-> (IF ~rule.block /\ spaceAfter THEN <<" ">> ELSE <<>>) \o lastTrailing]

\* index.ts lines 238-260: the whitespace pair process gives a node; li marks
\* a list item at or below the node with no rule of blank lines in between
ProcessWhitespace(rule, spaceBefore, spaceAfter, first, last) ==
    LET flanking == FlankingWhitespace(rule, spaceBefore, spaceAfter,
                                       first.leading, last.trailing)
    IN  [leading |-> IF rule.name = "li" THEN <<>>
                     ELSE IF rule.surroundingBlankLines THEN <<"\n", "\n">>
                     ELSE flanking.leading,
         trailing |-> IF rule.surroundingBlankLines THEN <<"\n", "\n">>
                      ELSE flanking.trailing \o rule.trailingWhitespace,
         li |-> rule.name = "li" \/ (~rule.surroundingBlankLines /\ (first.li \/ last.li)),
         depth |-> first.depth + 1]

\* a node without element children: no first child, no last child
NoChild == [leading |-> <<>>, trailing |-> <<>>, li |-> FALSE, depth |-> 0]

\* String.prototype.replace(/\n{3,}/, '\n\n'): the first run of three or more
\* newlines becomes two, the rest of the string stays
RECURSIVE NewlinesAtStart(_)
NewlinesAtStart(str) ==
    IF Len(str) = 0 \/ str[1] # "\n" THEN 0 ELSE 1 + NewlinesAtStart(Tail(str))
RECURSIVE ReplaceEveryRun(_)
ReplaceEveryRun(str) ==
    IF Len(str) = 0 THEN <<>>
    ELSE IF NewlinesAtStart(str) >= 3
         THEN <<"\n", "\n">> \o ReplaceEveryRun(SubSeq(str, NewlinesAtStart(str) + 1, Len(str)))
         ELSE IF NewlinesAtStart(str) >= 1
              THEN SubSeq(str, 1, NewlinesAtStart(str))
                       \o ReplaceEveryRun(SubSeq(str, NewlinesAtStart(str) + 1, Len(str)))
              ELSE <<str[1]>> \o ReplaceEveryRun(Tail(str))
RECURSIVE ReplaceFirstRun(_)
ReplaceFirstRun(str) ==
    IF Len(str) = 0 THEN <<>>
    ELSE IF NewlinesAtStart(str) >= 3
         THEN <<"\n", "\n">> \o SubSeq(str, NewlinesAtStart(str) + 1, Len(str))
         ELSE IF NewlinesAtStart(str) >= 1
              THEN SubSeq(str, 1, NewlinesAtStart(str))
                       \o ReplaceFirstRun(SubSeq(str, NewlinesAtStart(str) + 1, Len(str)))
              ELSE <<str[1]>> \o ReplaceFirstRun(Tail(str))

\* index.ts lines 158-162: the text between the previous sibling and the child
Separator(previous, this) == ReplaceFirstRun(this.leading \o previous.trailing)

\* the nodes process has run on when their parent is assembled: at first two
\* elements without element children
WInit ==
    /\ wpc = "processing"
    /\ \E rule \in Rules, spaceBefore, spaceAfter \in BOOLEAN :
          /\ rule.void => ~spaceBefore /\ ~spaceAfter
          /\ previousSibling = ProcessWhitespace(rule, spaceBefore, spaceAfter, NoChild, NoChild)
    /\ \E rule \in Rules, spaceBefore, spaceAfter \in BOOLEAN :
          /\ rule.void => ~spaceBefore /\ ~spaceAfter
          /\ currentChild = ProcessWhitespace(rule, spaceBefore, spaceAfter, NoChild, NoChild)
    /\ inserted = <<>>

\* index.ts lines 238-260: process runs on the parent of what was the previous
\* sibling, its last child; the parser lets no list item hold another without
\* an element between them whose rule asks for blank lines
ProcessParentOfPrevious ==
    /\ wpc = "processing"
    /\ previousSibling.depth <= MaxDepth
    /\ \E rule \in Rules, spaceBefore, spaceAfter \in BOOLEAN :
          /\ ~rule.void
          /\ rule.name = "li" => ~previousSibling.li
          /\ previousSibling' =
                ProcessWhitespace(rule, spaceBefore, spaceAfter, previousSibling, previousSibling)
    /\ UNCHANGED <<wpc, currentChild, inserted>>
    /\ UNCHANGED notAssembly

\* index.ts lines 238-260: process runs on the parent of what was the child,
\* its first child
ProcessParentOfChild ==
    /\ wpc = "processing"
    /\ currentChild.depth <= MaxDepth
    /\ \E rule \in Rules, spaceBefore, spaceAfter \in BOOLEAN :
          /\ ~rule.void
          /\ rule.name = "li" => ~currentChild.li
          /\ currentChild' =
                ProcessWhitespace(rule, spaceBefore, spaceAfter, currentChild, currentChild)
    /\ UNCHANGED <<wpc, previousSibling, inserted>>
    /\ UNCHANGED notAssembly

\* index.ts lines 144-165: getContent of the parent of the two
AssembleContent ==
    /\ wpc = "processing"
    /\ inserted' = Separator(previousSibling, currentChild)
    /\ wpc' = "assembled"
    /\ UNCHANGED <<previousSibling, currentChild>>
    /\ UNCHANGED notAssembly

WNext == ProcessParentOfPrevious \/ ProcessParentOfChild \/ AssembleContent

\* no three newlines in a row
NoRunOfThree(str) == \A k \in 1..Len(str) : NewlinesAtStart(SubSeq(str, k, Len(str))) < 3

\* C15: the text between two children is the previous sibling's trailing
\* whitespace followed by the child's leading whitespace, every run of three
\* or more newlines replaced by two; it holds no run of three newlines.
C15_TrailingThenLeadingCollapsed ==
    wpc = "assembled" =>
        /\ inserted = ReplaceEveryRun(previousSibling.trailing \o currentChild.leading)
        /\ NoRunOfThree(inserted)

\* the variables of the other parts, at rest
LIdle == lpc = "idle" /\ rawLinks = <<>> /\ links = <<>> /\ rootContent = <<>>
            /\ anchor = <<>> /\ replacement = <<>> /\ out = <<>>
CIdle == cpc = "idle" /\ languageCodeRewrite = {} /\ pre = <<>> /\ language = <<>>
            /\ fence = <<>>
TIdle == tpc = "idle" /\ tableNode = <<>> /\ alignments = <<>> /\ rows = <<>>
            /\ tableOut = <<>> /\ thrown = "none"
DIdle == dpc = "idle" /\ markdown = <<>> /\ tidied = <<>> /\ retidied = <<>>
            /\ childNodes = <<>>
PIdle == ppc = "idle" /\ parentOf = <<>> /\ kindOf = <<>> /\ queue = <<>>
            /\ processed = <<>> /\ current = 0 /\ read = {}
WIdle == wpc = "idle" /\ previousSibling = <<>> /\ currentChild = <<>> /\ inserted = <<>>
OIdle == opc = "idle" /\ listTag = "ol" /\ listNodes = <<>> /\ cursor = 0 /\ prefixes = <<>>
BIdle == bpc = "idle" /\ codeArg = <<>> /\ delimiterArg = 0 /\ delimiterLen = 0
            /\ delimited = <<>>
HIdle == hpc = "idle" /\ options = <<>> /\ inputHeaders = <<>> /\ topLevelHeaders = <<>>
            /\ ensureFirstHeaderIsH1 = TRUE /\ alignHeaders = TRUE /\ i = 0
            /\ lastHeaderDepth = 0 /\ rootDepth = 0

Init == HInit /\ LIdle /\ CIdle /\ TIdle /\ DIdle /\ PIdle /\ WIdle /\ OIdle /\ BIdle
Next == HNext
Spec == Init /\ [][Next]_vars
\* the loop of fixHeaders is sequential code: an enabled step is taken
FairSpec == Init /\ [][Next]_vars /\ WF_vars(Next)

\* the link table, the link rule and the reference block
LinkInit == LInit /\ HIdle /\ CIdle /\ TIdle /\ DIdle /\ PIdle /\ WIdle /\ OIdle /\ BIdle
LinkNext == LNext
LinkSpec == LinkInit /\ [][LinkNext]_vars

\* the fenced code rule
CodeInit == CInit /\ HIdle /\ LIdle /\ TIdle /\ DIdle /\ PIdle /\ WIdle /\ OIdle /\ BIdle
CodeNext == CNext
CodeSpec == CodeInit /\ [][CodeNext]_vars

\* the table rule
TableInit == TInit /\ HIdle /\ LIdle /\ CIdle /\ DIdle /\ PIdle /\ WIdle /\ OIdle /\ BIdle
TableNext == TNext
TableSpec == TableInit /\ [][TableNext]_vars

\* the fallback rule and convert applied twice
DocumentInit == DInit /\ HIdle /\ LIdle /\ CIdle /\ TIdle /\ PIdle /\ WIdle /\ OIdle /\ BIdle
DocumentNext == DNext
DocumentSpec == DocumentInit /\ [][DocumentNext]_vars

\* the processing order
OrderInit == PInit /\ HIdle /\ LIdle /\ CIdle /\ TIdle /\ DIdle /\ WIdle /\ OIdle /\ BIdle
OrderNext == PNext
OrderSpec == OrderInit /\ [][OrderNext]_vars

\* content assembly
AssemblyInit == WInit /\ HIdle /\ LIdle /\ CIdle /\ TIdle /\ DIdle /\ PIdle /\ OIdle /\ BIdle
AssemblyNext == WNext
AssemblySpec == AssemblyInit /\ [][AssemblyNext]_vars

\* list items
ListInit == OInit /\ HIdle /\ LIdle /\ CIdle /\ TIdle /\ DIdle /\ PIdle /\ WIdle /\ BIdle
ListNext == ONext
ListSpec == ListInit /\ [][ListNext]_vars

\* delimitCode; its loop is sequential code: an enabled step is taken
DelimitInit == BInit /\ HIdle /\ LIdle /\ CIdle /\ TIdle /\ DIdle /\ PIdle /\ WIdle /\ OIdle
DelimitNext == BNext
DelimitSpec == DelimitInit /\ [][DelimitNext]_vars /\ WF_vars(DelimitNext)

====
